---- MODULE Spec2Model ----
(***************************************************************************)
(* Model of the cross-compilation template: the deploy/debug orchestrator  *)
(* (deploy.sh), the build verification harness (scripts/test_build.sh) and *)
(* the build-variant resolver (Makefile).  Each component has its own      *)
(* specification (DeploySpec, HarnessSpec, MakeSpec) over one state; so    *)
(* have the logger (include/logger.h, LoggerSpec), the sample program      *)
(* (src/main.cpp, SampleSpec) and sequences of builds (RebuildSpec).       *)
(***************************************************************************)
EXTENDS Integers, Sequences, FiniteSets, TLC

VARIABLES
    \* ---- deploy.sh ----
    d_pc,              \* position in deploy.sh
    nargs,             \* number of positional arguments supplied by the caller
    binaryExists,      \* [ -f "${BINARY}" ]
    sshpassInstalled,  \* command -v sshpass
    remote,            \* state of the remote host
    remoteInit,        \* state of the remote host when the run started
    attempted,         \* remote steps attempted so far, in order
    stepRc,            \* exit status of each remote step attempted
    output,            \* what the script itself has written (log_* lines)
    exitStatus,        \* exit status of deploy.sh (meaningful at d_pc = "done")
    \* ---- scripts/test_build.sh ----
    h_pc,              \* position in test_build.sh
    installed,         \* compilers present on the invoking machine (command -v)
    PASSED,
    FAILED,
    FAILED_ARCHS,
    todo,              \* keys of ARCH_COMPILERS not yet iterated
    skipped,           \* architectures for which "Skipping ..." was printed
    built,             \* exit status of make for every build attempted
    summary,           \* names printed under "Failed architectures:"
    h_exit,            \* exit status of test_build.sh (meaningful at h_pc = "done")
    \* ---- Makefile ----
    files,             \* artifacts in the working directory: name -> how built
    lastReq,           \* the last make invocation (goal and variables)
    lastCmds,          \* compiler command lines run by the last make invocation
    lastRc,            \* exit status of the last make invocation
    nInv,              \* number of make invocations so far
    history,           \* the make invocations of a rebuild sequence, in order
    \* ---- include/logger.h ----
    minLevel_,         \* Logger::minLevel_
    sink,              \* the characters written to Logger::output_, in order
    threshold,         \* the level given to the last setLevel (DEBUG before any)
    lastCall,          \* the last call of Logger::log: level, sink length before
    site,              \* the call site of the log calls: function, __FILE__, __LINE__
    nLog,              \* number of calls of Logger::log so far
    \* ---- src/main.cpp ----
    p_pc,              \* position of the main program
    build,             \* "debug" (DEBUG defined) or "release" (NDEBUG defined)
    g_running,
    counter,           \* mainLoop's counter
    logPart,           \* the part of Logger::log the main program is to write next
    sleeps,            \* number of usleep calls completed
    signals,           \* number of SIGINT/SIGTERM delivered to the handler
    begun,             \* number of loop iterations begun
    begunAtSignal,     \* value of begun when the first signal was handled
    reported,          \* the count in "Main loop exited after %d iterations"
    events,            \* counter log calls and sleeps of the loop, in order
    writes             \* who wrote each piece of the sink: <<writer, call, part>>

deployVars  == <<d_pc, nargs, binaryExists, sshpassInstalled, remote, remoteInit,
                 attempted, stepRc, output, exitStatus>>
harnessVars == <<h_pc, installed, PASSED, FAILED, FAILED_ARCHS, todo, skipped,
                 built, summary, h_exit>>
makeVars    == <<files, lastReq, lastCmds, lastRc, nInv>>
loggerVars  == <<minLevel_, sink, threshold, lastCall, site, nLog>>
sampleVars  == <<p_pc, build, g_running, counter, logPart, sleeps, signals,
                 begun, begunAtSignal, reported, events, writes>>
progVars    == <<loggerVars, sampleVars, history>>
vars        == <<deployVars, harnessVars, makeVars, progVars>>

(***************************************************************************)
(* deploy.sh                                                               *)
(***************************************************************************)

\* Exit statuses a remote command (ssh, scp) can return: success, a failure
\* of the remote command, a failure of the connection itself.
ExitCodes == {0, 1, 255}

\* The remote steps in the order the script lists them.
Steps == <<"cleanup", "upload", "chmod", "launch">>

FatalSteps == {"upload", "chmod", "launch"}

\* Number of positional parameters the script requires.
RequiredArgs == 6

\* set -e is not in force: a failing command does not end the script.
ErrExitOff == FALSE

\* set -e
ErrExit == TRUE

\* No step carries '|| true'.
ToleratedNone(step) == FALSE

\* The steps whose failure is suppressed with '|| true'.
Tolerated(step) == step = "cleanup"

\* Whether the script goes on after a step that returned rc.
Continues(step, rc) == rc = 0 \/ Tolerated(step) \/ ~ErrExit

\* The steps with chmod placed before the upload.
StepAfterSwapped(step) ==
    CASE step = "cleanup" -> "chmod"
      [] step = "chmod"   -> "upload"
      [] step = "upload"  -> "launch"
      [] step = "launch"  -> "done"

\* The statement that follows each remote step in the script.
StepAfter(step) ==
    CASE step = "cleanup" -> "upload"
      [] step = "upload"  -> "chmod"
      [] step = "chmod"   -> "launch"
      [] step = "launch"  -> "done"

log_info(out, msg)  == Append(out, <<"INFO", msg>>)
log_error(out, msg) == Append(out, <<"ERROR", msg>>)

\* Bookkeeping common to the four remote steps: the step is recorded as
\* attempted with its status; the script goes on to the next statement or
\* ends with the status of the failed command.
RunStep(step, rc) ==
    /\ attempted' = Append(attempted, step)
    /\ stepRc' = [s \in DOMAIN stepRc \cup {step} |->
                    IF s = step THEN rc ELSE stepRc[s]]
    /\ IF Continues(step, rc)
       THEN /\ d_pc' = StepAfter(step)
            /\ exitStatus' = IF StepAfter(step) = "done" THEN rc ELSE exitStatus
       ELSE /\ d_pc' = "done"
            /\ exitStatus' = rc

deployEnv == <<nargs, binaryExists, sshpassInstalled, remoteInit>>

\* ${N:?Error: ... is required} for N = 1..6
ParseArgs ==
    /\ d_pc = "args"
    /\ IF nargs < RequiredArgs
       THEN /\ d_pc' = "done"
            /\ exitStatus' = 1
       ELSE /\ d_pc' = "check_binary"
            /\ UNCHANGED exitStatus
    /\ UNCHANGED <<deployEnv, remote, attempted, stepRc, output>>
    /\ UNCHANGED <<harnessVars, makeVars, progVars>>

\* The binary check with the 'exit 1' left out.
CheckBinaryNoExit ==
    /\ d_pc = "check_binary"
    /\ output' = IF ~binaryExists
                 THEN log_info(log_error(output, "Binary file not found!"),
                               "Run 'make' first to build the binary.")
                 ELSE output
    /\ d_pc' = "check_sshpass"
    /\ UNCHANGED <<deployEnv, remote, attempted, stepRc, exitStatus>>
    /\ UNCHANGED <<harnessVars, makeVars, progVars>>

\* if [ ! -f "${BINARY}" ]; then log_error; log_info; exit 1; fi
CheckBinary ==
    /\ d_pc = "check_binary"
    /\ IF ~binaryExists
       THEN /\ output' = log_info(log_error(output, "Binary file not found!"),
                                  "Run 'make' first to build the binary.")
            /\ d_pc' = "done"
            /\ exitStatus' = 1
       ELSE /\ d_pc' = "check_sshpass"
            /\ UNCHANGED <<output, exitStatus>>
    /\ UNCHANGED <<deployEnv, remote, attempted, stepRc>>
    /\ UNCHANGED <<harnessVars, makeVars, progVars>>

\* if ! command -v sshpass; then log_error; exit 1; fi
\* log_info "Deploying to ..."
CheckSshpass ==
    /\ d_pc = "check_sshpass"
    /\ IF ~sshpassInstalled
       THEN /\ output' = log_error(output, "sshpass is not installed.")
            /\ d_pc' = "done"
            /\ exitStatus' = 1
       ELSE /\ output' = log_info(output, "Deploying to target")
            /\ d_pc' = "cleanup"
            /\ UNCHANGED exitStatus
    /\ UNCHANGED <<deployEnv, remote, attempted, stepRc>>
    /\ UNCHANGED <<harnessVars, makeVars, progVars>>

\* log_info "Cleaning up previous deployment..."
\* sshpass ssh "sh -c 'pkill -f gdbserver; rm -rf DEST/BINARY; exit 0'" || true
\* The remote command may do all, part or none of its work (nothing to kill,
\* nothing to remove, connection refused or lost, remote shell killed).
Cleanup ==
    /\ d_pc = "cleanup"
    /\ output' = log_info(output, "Cleaning up previous deployment...")
    /\ \E rc \in ExitCodes, kill \in BOOLEAN, rm \in BOOLEAN :
         /\ remote' = [remote EXCEPT
                         !.gdbserver = IF kill THEN FALSE ELSE @,
                         !.artifact  = IF rm THEN "none" ELSE @]
         /\ RunStep("cleanup", rc)
    /\ UNCHANGED <<deployEnv, harnessVars, makeVars, progVars>>

\* log_info "Uploading binary..."
\* sshpass scp BINARY USER@IP:DEST/BINARY
\* A failed copy leaves the remote file as it was or partially written.
Upload ==
    /\ d_pc = "upload"
    /\ output' = log_info(output, "Uploading binary...")
    /\ \E rc \in ExitCodes, partial \in BOOLEAN :
         /\ remote' = [remote EXCEPT
                         !.artifact = IF rc = 0 THEN "new"
                                      ELSE IF partial THEN "partial" ELSE @]
         /\ RunStep("upload", rc)
    /\ UNCHANGED <<deployEnv, harnessVars, makeVars, progVars>>

\* sshpass ssh "chmod +x DEST/BINARY"   (no log line)
Chmod ==
    /\ d_pc = "chmod"
    /\ \E rc \in ExitCodes :
         /\ remote' = [remote EXCEPT !.chmodDone = IF rc = 0 THEN TRUE ELSE @]
         /\ RunStep("chmod", rc)
    /\ UNCHANGED <<deployEnv, output, harnessVars, makeVars, progVars>>

\* log_info "Starting gdbserver on IP:PORT..."
\* sshpass ssh -t "sh -c 'cd DEST; gdbserver localhost:PORT BINARY'"
\* The status is that of the remote gdbserver, or 255 when ssh itself fails.
Launch ==
    /\ d_pc = "launch"
    /\ output' = log_info(output, "Starting gdbserver...")
    /\ \E rc \in ExitCodes, started \in BOOLEAN :
         /\ rc = 0 => started
         /\ remote' = [remote EXCEPT !.launched = started]
         /\ RunStep("launch", rc)
    /\ UNCHANGED <<deployEnv, harnessVars, makeVars, progVars>>

DeployIdle ==
    /\ d_pc = "idle"
    /\ nargs = 0
    /\ binaryExists = FALSE
    /\ sshpassInstalled = FALSE
    /\ remote = [gdbserver |-> FALSE, artifact |-> "none",
                 chmodDone |-> FALSE, launched |-> FALSE]
    /\ remoteInit = remote
    /\ attempted = <<>>
    /\ stepRc = [s \in {} |-> 0]
    /\ output = <<>>
    /\ exitStatus = 0

DeployStart ==
    /\ d_pc = "args"
    /\ nargs \in 0..RequiredArgs
    /\ binaryExists \in BOOLEAN
    /\ sshpassInstalled \in BOOLEAN
    /\ remote \in [gdbserver : BOOLEAN, artifact : {"none", "old"},
                   chmodDone : {FALSE}, launched : {FALSE}]
    /\ remoteInit = remote
    /\ attempted = <<>>
    /\ stepRc = [s \in {} |-> 0]
    /\ output = <<>>
    /\ exitStatus = 0

DeployNext ==
    \/ ParseArgs
    \/ CheckBinary
    \/ CheckSshpass
    \/ Cleanup
    \/ Upload
    \/ Chmod
    \/ Launch


(***************************************************************************)
(* Makefile                                                                *)
(***************************************************************************)

PROJECT_NAME    == "firmware"
PROJECT_SOURCES == <<"src/main.cpp">>
INCLUDES        == <<"-Iinclude">>
LDFLAGS         == <<"-Llib">>
COMMON_FLAGS    == <<"-Wall", "-Wextra", "-Wpedantic", "-std=c++17">>
DEBUG_FLAGS     == <<"-g3", "-O0", "-DDEBUG">>
RELEASE_FLAGS   == <<"-O2", "-DNDEBUG", "-s">>
TARGET_CPP      == "arm-linux-gnueabihf-g++"
HOST_CPP        == "g++"

TARGET_BINARY     == PROJECT_NAME \o ".bin"
HOST_BINARY       == "program.bin"
CROSS_BINARY(arch) == PROJECT_NAME \o "_" \o arch \o ".bin"

\* BUILD_MODE ?= debug  (the empty string stands for a variable not set)
BUILD_MODE(bm) == IF bm = "" THEN "debug" ELSE bm

\* The selection with the test inverted.
CFLAGS_inverted(bm) ==
    IF BUILD_MODE(bm) = "release" THEN COMMON_FLAGS \o DEBUG_FLAGS
                                  ELSE COMMON_FLAGS \o RELEASE_FLAGS

\* ifeq ($(BUILD_MODE),release) CFLAGS := COMMON RELEASE else COMMON DEBUG
CFLAGS(bm) ==
    IF BUILD_MODE(bm) = "release" THEN COMMON_FLAGS \o RELEASE_FLAGS
                                  ELSE COMMON_FLAGS \o DEBUG_FLAGS

\* $(CPP) when the caller sets none: make's built-in value, $(CC) -E
CPP(cpp) == IF cpp = "" THEN "cc -E" ELSE cpp

\* $(TARGET_CPP) $(CFLAGS) -DTARGET $(LDFLAGS) -o $@ $(PROJECT_SOURCES) $(INCLUDES)
TargetCommand(bm) ==
    <<TARGET_CPP>> \o CFLAGS(bm) \o <<"-DTARGET">> \o LDFLAGS
        \o <<"-o", TARGET_BINARY>> \o PROJECT_SOURCES \o INCLUDES

\* $(HOST_CPP) $(CFLAGS) -DHOST $(HOST_LDFLAGS) -o $@ $(PROJECT_SOURCES) $(INCLUDES)
HostCommand(bm) ==
    <<HOST_CPP>> \o CFLAGS(bm) \o <<"-DHOST">>
        \o <<"-o", HOST_BINARY>> \o PROJECT_SOURCES \o INCLUDES

\* The cross rule written with $(TARGET_CPP) in place of $(CPP).
CrossCommand_target_cpp(bm, arch, cpp) ==
    <<TARGET_CPP>> \o CFLAGS(bm) \o <<"-D" \o arch>> \o LDFLAGS
        \o <<"-o", CROSS_BINARY(arch)>> \o PROJECT_SOURCES \o INCLUDES

\* The cross rule writing $(TARGET_BINARY).
CrossCommand_target_binary(bm, arch, cpp) ==
    <<CPP(cpp)>> \o CFLAGS(bm) \o <<"-D" \o arch>> \o LDFLAGS
        \o <<"-o", TARGET_BINARY>> \o PROJECT_SOURCES \o INCLUDES

\* $(CPP) $(CFLAGS) -D$(CROSS_ARCH) $(LDFLAGS) -o $@ $(PROJECT_SOURCES) $(INCLUDES)
CrossCommand(bm, arch, cpp) ==
    <<CPP(cpp)>> \o CFLAGS(bm) \o <<"-D" \o arch>> \o LDFLAGS
        \o <<"-o", CROSS_BINARY(arch)>> \o PROJECT_SOURCES \o INCLUDES

\* The file a command line writes: the word after -o.
OutputOf(argv) == argv[(CHOOSE i \in DOMAIN argv : argv[i] = "-o") + 1]

\* A file rule  target: $(PROJECT_SOURCES) $(PROJECT_HEADERS)  with sources
\* that do not change: the recipe runs only when the target does not exist.
\* ok: the compiler is present and compiles the sources.
FileRule(fs, argv, ok) ==
    LET target == OutputOf(argv) IN
    IF target \in DOMAIN fs
    THEN [files |-> fs, cmds |-> <<>>, rc |-> 0]
    ELSE IF ok
         THEN [files |-> [f \in DOMAIN fs \cup {target} |->
                            IF f = target THEN argv ELSE fs[f]],
               cmds |-> <<argv>>, rc |-> 0]
         ELSE [files |-> fs, cmds |-> <<argv>>, rc |-> 2]

\* clean-bin: rm -f *.bin ; clean: rm -f *.bin *.o *.elf ; rm -rf build
NoFiles == [f \in {} |-> <<>>]

TargetGoals == {"all", "debug", "release"}
HostGoals   == {"host", "host-debug", "host-release", "host_compile"}
CrossGoals  == {"cross_compile", "cross-debug", "cross-release"}
CleanGoals  == {"clean", "clean-bin"}

\* One run of make: goal, the variables BUILD_MODE, CROSS_ARCH and CPP as
\* the caller sets them, the files present, and whether a compilation
\* succeeds.  debug, release, host-debug and host-release depend on clean-bin
\* and then run $(MAKE) BUILD_MODE=... on the file rule; cross-debug and
\* cross-release run $(MAKE) BUILD_MODE=... cross_compile.
Make(goal, bm, arch, cpp, fs, ok) ==
    CASE goal = "all"           -> FileRule(fs, TargetCommand(bm), ok)
      [] goal = "debug"         -> FileRule(NoFiles, TargetCommand("debug"), ok)
      [] goal = "release"       -> FileRule(NoFiles, TargetCommand("release"), ok)
      [] goal = "host_compile"  -> FileRule(fs, HostCommand(bm), ok)
      [] goal = "host"          -> FileRule(NoFiles, HostCommand("debug"), ok)
      [] goal = "host-debug"    -> FileRule(NoFiles, HostCommand("debug"), ok)
      [] goal = "host-release"  -> FileRule(NoFiles, HostCommand("release"), ok)
      [] goal = "cross_compile" -> FileRule(fs, CrossCommand(bm, arch, cpp), ok)
      [] goal = "cross-debug"   -> FileRule(fs, CrossCommand("debug", arch, cpp), ok)
      [] goal = "cross-release" -> FileRule(fs, CrossCommand("release", arch, cpp), ok)
      [] goal \in CleanGoals    -> [files |-> NoFiles, cmds |-> <<>>, rc |-> 0]

\* A make invocation and its effect on the working directory.
Invoke(goal, bm, arch, cpp, ok) ==
    LET r == Make(goal, bm, arch, cpp, files, ok) IN
    /\ files' = r.files
    /\ lastCmds' = r.cmds
    /\ lastRc' = r.rc
    /\ lastReq' = [goal |-> goal, BUILD_MODE |-> bm, CROSS_ARCH |-> arch, CPP |-> cpp]
    /\ nInv' = nInv + 1

\* The six architectures of the README table and of 'make help'.
Archs == {"arm64", "armhf", "armel", "riscv64", "amd64", "i386"}

\* README, Supported Architectures: architecture -> compiler.
DocumentedCompiler(arch) ==
    CASE arch = "arm64"   -> "aarch64-linux-gnu-g++"
      [] arch = "armhf"   -> "arm-linux-gnueabihf-g++"
      [] arch = "armel"   -> "arm-linux-gnueabi-g++"
      [] arch = "riscv64" -> "riscv64-linux-gnu-g++"
      [] arch = "amd64"   -> "x86_64-linux-gnu-g++"
      [] arch = "i386"    -> "i686-linux-gnu-g++"

\* Values of BUILD_MODE a caller may set ("" = not set).
BuildModes == {"", "debug", "release", "Release"}

\* Values of CROSS_ARCH a caller may set: the six tokens, none, an unknown one.
ArchTokens == Archs \cup {"", "mips"}

\* Values of CPP a caller may set for an architecture token: the documented
\* compiler, none, and the compiler of another architecture.
CppInputs(arch) ==
    {""} \cup (IF arch \in Archs THEN {DocumentedCompiler(arch)} ELSE {})
         \cup {IF arch = "armel" THEN "aarch64-linux-gnu-g++" ELSE "arm-linux-gnueabi-g++"}

\* Number of make invocations explored.
MaxInvocations == 1

MakeTarget ==
    /\ nInv < MaxInvocations
    /\ \E goal \in TargetGoals, bm \in BuildModes, ok \in BOOLEAN :
         Invoke(goal, bm, "", "", ok)
    /\ UNCHANGED <<deployVars, harnessVars, progVars>>

MakeHost ==
    /\ nInv < MaxInvocations
    /\ \E goal \in HostGoals, bm \in BuildModes, ok \in BOOLEAN :
         Invoke(goal, bm, "", "", ok)
    /\ UNCHANGED <<deployVars, harnessVars, progVars>>

MakeCross ==
    /\ nInv < MaxInvocations
    /\ \E goal \in CrossGoals, bm \in BuildModes, arch \in ArchTokens, ok \in BOOLEAN :
         \E cpp \in CppInputs(arch) : Invoke(goal, bm, arch, cpp, ok)
    /\ UNCHANGED <<deployVars, harnessVars, progVars>>

MakeClean ==
    /\ nInv < MaxInvocations
    /\ \E goal \in CleanGoals : Invoke(goal, "", "", "", TRUE)
    /\ UNCHANGED <<deployVars, harnessVars, progVars>>

MakeIdle ==
    /\ files = NoFiles
    /\ lastReq = [goal |-> "", BUILD_MODE |-> "", CROSS_ARCH |-> "", CPP |-> ""]
    /\ lastCmds = <<>>
    /\ lastRc = 0
    /\ nInv = 0

\* The working directory before the first invocation explored: empty, or
\* holding the artifact of one earlier build.
PriorBuilds ==
    {NoFiles,
     Make("all", "", "", "", NoFiles, TRUE).files,
     Make("host_compile", "", "", "", NoFiles, TRUE).files,
     Make("cross_compile", "", "arm64", DocumentedCompiler("arm64"), NoFiles, TRUE).files}

MakeStart ==
    /\ files \in PriorBuilds
    /\ lastReq = [goal |-> "", BUILD_MODE |-> "", CROSS_ARCH |-> "", CPP |-> ""]
    /\ lastCmds = <<>>
    /\ lastRc = 0
    /\ nInv = 0

MakeNext ==
    \/ MakeTarget
    \/ MakeHost
    \/ MakeCross
    \/ MakeClean

(***************************************************************************)
(* scripts/test_build.sh                                                   *)
(***************************************************************************)

\* declare -A ARCH_COMPILERS=( ... )
ARCH_COMPILERS ==
    [arch \in {"arm64", "armel", "riscv64", "amd64", "i386"} |->
        DocumentedCompiler(arch)]

\* Every compiler some build of the harness runs.
HarnessCompilers ==
    {HOST_CPP, TARGET_CPP} \cup {ARCH_COMPILERS[a] : a \in DOMAIN ARCH_COMPILERS}

\* command -v "$compiler"
CommandV(compiler) == compiler \in installed

\* The else branch without FAILED=$((FAILED + 1)).
Record_uncounted(name, rc) ==
    IF rc = 0
    THEN /\ PASSED' = PASSED + 1
         /\ UNCHANGED <<FAILED, FAILED_ARCHS>>
    ELSE /\ FAILED_ARCHS' = Append(FAILED_ARCHS, name)
         /\ UNCHANGED <<PASSED, FAILED>>

\* if make ...; then log_pass; PASSED=$((PASSED + 1))
\* else log_error; FAILED_ARCHS+=("name"); FAILED=$((FAILED + 1)); fi
Record(name, rc) ==
    IF rc = 0
    THEN /\ PASSED' = PASSED + 1
         /\ UNCHANGED <<FAILED, FAILED_ARCHS>>
    ELSE /\ FAILED_ARCHS' = Append(FAILED_ARCHS, name)
         /\ FAILED' = FAILED + 1
         /\ UNCHANGED PASSED

\* The build 'name' ended with status rc.
Built(name, rc) ==
    built' = [n \in DOMAIN built \cup {name} |-> IF n = name THEN rc ELSE built[n]]

\* The exit test written as [ $FAILED -gt 0 ].
ExitTestInverted(failed) == IF failed > 0 THEN 0 ELSE 1

\* [ $FAILED -eq 0 ]  as the last command of the script
ExitTest(failed) == IF failed = 0 THEN 0 ELSE 1

\* make clean > /dev/null 2>&1 || true
HClean ==
    /\ h_pc = "clean"
    /\ Invoke("clean", "", "", "", TRUE)
    /\ h_pc' = "host"
    /\ UNCHANGED <<deployVars, progVars, installed, PASSED, FAILED, FAILED_ARCHS, todo,
                   skipped, built, summary, h_exit>>

\* if make host_compile; then ... else ... fi
\* The compilation fails when g++ is absent and may fail when it is present.
HHost ==
    /\ h_pc = "host"
    /\ \E compiles \in BOOLEAN :
         Invoke("host_compile", "", "", "", CommandV(HOST_CPP) /\ compiles)
    /\ Record("host", lastRc')
    /\ Built("host", lastRc')
    /\ h_pc' = "armhf"
    /\ UNCHANGED <<deployVars, progVars, installed, todo, skipped, summary, h_exit>>

\* if make; then ... else ... fi   (no check that the toolchain is present)
HArmhf ==
    /\ h_pc = "armhf"
    /\ \E compiles \in BOOLEAN :
         Invoke("all", "", "", "", CommandV(TARGET_CPP) /\ compiles)
    /\ Record("armhf", lastRc')
    /\ Built("armhf", lastRc')
    /\ h_pc' = "loop"
    /\ UNCHANGED <<deployVars, progVars, installed, todo, skipped, summary, h_exit>>

\* One iteration of  for arch in "${!ARCH_COMPILERS[@]}"  : the keys of an
\* associative array come in no specified order.
HCross ==
    /\ h_pc = "loop"
    /\ \E arch \in todo :
         /\ todo' = todo \ {arch}
         /\ IF ~CommandV(ARCH_COMPILERS[arch])
            THEN /\ skipped' = skipped \cup {arch}
                 /\ UNCHANGED <<PASSED, FAILED, FAILED_ARCHS, built, makeVars>>
            ELSE /\ \E compiles \in BOOLEAN :
                      Invoke("cross_compile", "", arch, ARCH_COMPILERS[arch], compiles)
                 /\ Record(arch, lastRc')
                 /\ Built(arch, lastRc')
                 /\ UNCHANGED skipped
    /\ UNCHANGED <<deployVars, progVars, h_pc, installed, summary, h_exit>>

\* The summary, the final make clean and the exit status.
HSummary ==
    /\ h_pc = "loop"
    /\ todo = {}
    /\ summary' = IF FAILED > 0 THEN FAILED_ARCHS ELSE <<>>
    /\ Invoke("clean", "", "", "", TRUE)
    /\ h_exit' = ExitTest(FAILED)
    /\ h_pc' = "done"
    /\ UNCHANGED <<deployVars, progVars, installed, PASSED, FAILED, FAILED_ARCHS, todo,
                   skipped, built>>

HarnessIdle ==
    /\ h_pc = "idle"
    /\ installed = {}
    /\ PASSED = 0
    /\ FAILED = 0
    /\ FAILED_ARCHS = <<>>
    /\ todo = {}
    /\ skipped = {}
    /\ built = [n \in {} |-> 0]
    /\ summary = <<>>
    /\ h_exit = 0

HarnessStart ==
    /\ h_pc = "clean"
    /\ installed \in SUBSET HarnessCompilers
    /\ PASSED = 0
    /\ FAILED = 0
    /\ FAILED_ARCHS = <<>>
    /\ todo = DOMAIN ARCH_COMPILERS
    /\ skipped = {}
    /\ built = [n \in {} |-> 0]
    /\ summary = <<>>
    /\ h_exit = 0

HarnessNext ==
    \/ HClean
    \/ HHost
    \/ HArmhf
    \/ HCross
    \/ HSummary

(***************************************************************************)
(* include/logger.h                                                        *)
(* Text is a sequence of characters, each a string of length one.          *)
(***************************************************************************)

\* enum class LogLevel
LVL_TRACE == 0
LVL_DEBUG == 1
LVL_INFO  == 2
LVL_WARN  == 3
LVL_ERROR == 4
LVL_FATAL == 5
LogLevels == LVL_TRACE..LVL_FATAL

Digit(n) == <<"0", "1", "2", "3", "4", "5", "6", "7", "8", "9">>[n + 1]

\* %d for a number that is not negative
RECURSIVE Decimal(_)
Decimal(n) == IF n < 10 THEN <<Digit(n)>>
              ELSE Append(Decimal(n \div 10), Digit(n % 10))

\* The labels without the trailing space of INFO and WARN.
levelToString_unpadded(level) ==
    CASE level = LVL_TRACE -> <<"T", "R", "A", "C", "E">>
      [] level = LVL_DEBUG -> <<"D", "E", "B", "U", "G">>
      [] level = LVL_INFO  -> <<"I", "N", "F", "O">>
      [] level = LVL_WARN  -> <<"W", "A", "R", "N">>
      [] level = LVL_ERROR -> <<"E", "R", "R", "O", "R">>
      [] level = LVL_FATAL -> <<"F", "A", "T", "A", "L">>
      [] OTHER             -> <<"?", "?", "?", "?", "?">>

\* Logger::levelToString
levelToString(level) ==
    CASE level = LVL_TRACE -> <<"T", "R", "A", "C", "E">>
      [] level = LVL_DEBUG -> <<"D", "E", "B", "U", "G">>
      [] level = LVL_INFO  -> <<"I", "N", "F", "O", " ">>
      [] level = LVL_WARN  -> <<"W", "A", "R", "N", " ">>
      [] level = LVL_ERROR -> <<"E", "R", "R", "O", "R">>
      [] level = LVL_FATAL -> <<"F", "A", "T", "A", "L">>
      [] OTHER             -> <<"?", "?", "?", "?", "?">>

\* Logger::getTimestamp: strftime "%Y-%m-%d %H:%M:%S" of the local time, for
\* a clock that reads 'now' seconds into a fixed minute of a fixed day.
getTimestamp(now) ==
    <<"2", "0", "2", "5", "-", "1", "2", "-", "0", "3", " ",
      "1", "3", ":", "2", "3", ":">>
        \o <<Digit((now \div 10) % 6), Digit(now % 10)>>

\* strrchr: the index of the last c in text, 0 when there is none
strrchr(text, c) ==
    IF \E i \in DOMAIN text : text[i] = c
    THEN CHOOSE i \in DOMAIN text :
            text[i] = c /\ \A j \in DOMAIN text : text[j] = c => j <= i
    ELSE 0

\* strchr: the index of the first c in text, 0 when there is none
strchr(text, c) ==
    IF \E i \in DOMAIN text : text[i] = c
    THEN CHOOSE i \in DOMAIN text :
            text[i] = c /\ \A j \in DOMAIN text : text[j] = c => i <= j
    ELSE 0

\* getFilename written with strchr.
getFilename_first(path) ==
    LET slash == strchr(path, "/") IN
    IF slash # 0 THEN SubSeq(path, slash + 1, Len(path))
    ELSE LET backslash == strchr(path, "\\") IN
         IF backslash # 0 THEN SubSeq(path, backslash + 1, Len(path))
         ELSE path

\* Logger::getFilename
getFilename(path) ==
    LET slash == strrchr(path, "/") IN
    IF slash # 0 THEN SubSeq(path, slash + 1, Len(path))
    ELSE LET backslash == strrchr(path, "\\") IN
         IF backslash # 0 THEN SubSeq(path, backslash + 1, Len(path))
         ELSE path

\* The test written level <= minLevel_.
Dropped_inclusive(level, min) == level <= min

\* if (level < minLevel_) return;
Dropped(level, min) == level < min

\* fprintf(output_, "%s %s [%s] [%s:%d] : ", timestamp, levelToString(level),
\*         func, filename, line)
Header(level, func, file, line, now) ==
    getTimestamp(now) \o <<" ">> \o levelToString(level) \o <<" ", "[">> \o func
        \o <<"]", " ", "[">> \o getFilename(file) \o <<":">> \o Decimal(line)
        \o <<"]", " ", ":", " ">>

\* fprintf(output_, "\n")
Newline == <<"\n">>

\* What one call of Logger::log adds to the sink.
LogText(level, min, func, file, line, msg, now) ==
    IF Dropped(level, min) THEN <<>>
    ELSE Header(level, func, file, line, now) \o msg \o Newline

\* Logger() : minLevel_(LogLevel::LVL_DEBUG)
InitialLevel == LVL_DEBUG

\* Logger::setLevel
setLevel ==
    /\ \E level \in LogLevels :
         /\ minLevel_' = level
         /\ threshold' = level
    /\ UNCHANGED <<sink, lastCall, site, nLog>>
    /\ UNCHANGED <<deployVars, harnessVars, makeVars, sampleVars, history>>

\* Number of calls of Logger::log explored.
MaxLogCalls == 2

\* Longest __FILE__ explored.
MaxPathLen == 4

\* The characters of the paths explored.
PathChars == {"/", "\\", "a"}

Paths == UNION {[1..n -> PathChars] : n \in 0..MaxPathLen}

\* The message of the log calls explored: "m%d" with the number of the call.
Message(n) == <<"m">> \o Decimal(n)

\* Logger::log, called at the call site with some level; the clock reads one
\* second more at every call.
log ==
    /\ nLog < MaxLogCalls
    /\ \E level \in LogLevels :
         /\ sink' = sink \o LogText(level, minLevel_, site.func, site.file,
                                    site.line, Message(nLog), nLog)
         /\ lastCall' = [level |-> level, min |-> threshold,
                        before |-> Len(sink), msg |-> Message(nLog),
                        now |-> nLog]
    /\ nLog' = nLog + 1
    /\ UNCHANGED <<minLevel_, threshold, site>>
    /\ UNCHANGED <<deployVars, harnessVars, makeVars, sampleVars, history>>

NoCall == [level |-> LVL_TRACE, min |-> LVL_DEBUG, before |-> 0, msg |-> <<>>,
           now |-> 0]

\* A logger just constructed, and the call site of the log calls.
LoggerStart ==
    /\ minLevel_ = InitialLevel
    /\ sink = <<>>
    /\ threshold = LVL_DEBUG
    /\ lastCall = NoCall
    /\ site \in [func : {<<"r", "u", "n">>}, file : Paths, line : {772}]
    /\ nLog = 0

LoggerIdle ==
    /\ minLevel_ = InitialLevel
    /\ sink = <<>>
    /\ threshold = LVL_DEBUG
    /\ lastCall = NoCall
    /\ site = [func |-> <<>>, file |-> <<>>, line |-> 0]
    /\ nLog = 0

LoggerNext ==
    \/ setLevel
    \/ log

SampleIdle ==
    /\ p_pc = "idle"
    /\ build = "debug"
    /\ g_running = TRUE
    /\ counter = 0
    /\ logPart = "none"
    /\ sleeps = 0
    /\ signals = 0
    /\ begun = 0
    /\ begunAtSignal = 0
    /\ reported = 0
    /\ events = <<>>
    /\ writes = <<>>

RebuildIdle == history = <<>>

(***************************************************************************)
(* src/main.cpp                                                            *)
(* The sink of the sample program is kept as the sequence of the writes    *)
(* made to it: a log call that is not dropped makes three, the header, the *)
(* message and the newline.                                                *)
(***************************************************************************)

\* -DDEBUG or -DRELEASE
Builds == {"debug", "release"}

\* The three writes of one call of Logger::log.
Line(who, call) ==
    << [who |-> who, call |-> call, part |-> "header"],
       [who |-> who, call |-> call, part |-> "message"],
       [who |-> who, call |-> call, part |-> "newline"] >>

\* Log calls made one after the other, the first of them call number n.
RECURSIVE Calls(_, _, _)
Calls(levels, min, n) ==
    IF levels = <<>> THEN <<>>
    ELSE (IF Dropped(Head(levels), min) THEN <<>> ELSE Line("main", n))
            \o Calls(Tail(levels), min, n + 1)

\* A function of the start-up that makes the log calls 'levels' and returns.
Run(levels, next) ==
    /\ writes' = writes \o Calls(levels, minLevel_, nLog)
    /\ nLog' = nLog + Len(levels)
    /\ p_pc' = next
    /\ UNCHANGED <<minLevel_, threshold, sink, lastCall, site>>
    /\ UNCHANGED <<build, g_running, counter, logPart, sleeps, signals, begun,
                   begunAtSignal, reported, events>>
    /\ UNCHANGED <<deployVars, harnessVars, makeVars, history>>

\* signal(SIGINT, signalHandler); signal(SIGTERM, signalHandler);
Register ==
    /\ p_pc = "main"
    /\ Run(<<>>, "configure")

\* The level main sets for the build.
BuildLevel(b) == IF b = "debug" THEN LVL_DEBUG ELSE LVL_INFO

\* Logger::getInstance().setLevel(...) and the line that reports it
Configure ==
    /\ p_pc = "configure"
    /\ minLevel_' = BuildLevel(build)
    /\ threshold' = BuildLevel(build)
    /\ writes' = writes \o Calls(<<BuildLevel(build)>>, BuildLevel(build), nLog)
    /\ nLog' = nLog + 1
    /\ p_pc' = "starting"
    /\ UNCHANGED <<sink, lastCall, site>>
    /\ UNCHANGED <<build, g_running, counter, logPart, sleeps, signals, begun,
                   begunAtSignal, reported, events>>
    /\ UNCHANGED <<deployVars, harnessVars, makeVars, history>>

\* LOG_INFO("Application starting...")
Starting ==
    /\ p_pc = "starting"
    /\ Run(<<LVL_INFO>>, "printBuildInfo")

printBuildInfo ==
    /\ p_pc = "printBuildInfo"
    /\ IF build = "debug"
       THEN Run([i \in 1..6 |-> LVL_DEBUG], "debugAssertDemo")
       ELSE Run(<<>>, "debugAssertDemo")

\* malloc(100) returns a block or not
debugAssertDemo ==
    /\ p_pc = "debugAssertDemo"
    /\ IF build = "debug"
       THEN \E ptr \in BOOLEAN :
               IF ptr THEN Run(<<LVL_DEBUG, LVL_DEBUG, LVL_DEBUG>>, "printSystemInfo")
               ELSE Run(<<LVL_DEBUG>>, "printSystemInfo")
       ELSE Run(<<>>, "printSystemInfo")

\* uname() succeeds or not
printSystemInfo ==
    /\ p_pc = "printSystemInfo"
    /\ \E ok \in BOOLEAN :
         IF ok THEN Run([i \in 1..10 |-> LVL_INFO], "printUserInfo")
         ELSE Run(<<LVL_ERROR>>, "printUserInfo")

\* geteuid() is 0 or not; a user name is found or not
printUserInfo ==
    /\ p_pc = "printUserInfo"
    /\ \E root \in BOOLEAN, named \in BOOLEAN :
         Run(<<IF root THEN LVL_WARN ELSE LVL_DEBUG,
               IF named THEN LVL_INFO ELSE LVL_WARN>>, "mainLoop")

\* The control flow of mainLoop with the sleep at the head of the iteration.
Successor_sleep_first(pc, b) ==
    CASE pc = "mainLoop"   -> "check"
      [] pc = "check"      -> "sleep"
      [] pc = "sleep"      -> "log"
      [] pc = "log"        -> "inc"
      [] pc = "inc"        -> IF b = "debug" THEN "trace" ELSE "check"
      [] pc = "trace"      -> "check"
      [] pc = "exited"     -> "terminated"
      [] pc = "terminated" -> "done"

\* The control flow of mainLoop and of the end of main: the statement that
\* follows a statement (for the loop test, when the flag is set).
Successor(pc, b) ==
    CASE pc = "mainLoop"   -> "check"
      [] pc = "check"      -> "log"
      [] pc = "log"        -> "inc"
      [] pc = "inc"        -> IF b = "debug" THEN "trace" ELSE "sleep"
      [] pc = "trace"      -> "sleep"
      [] pc = "sleep"      -> "check"
      [] pc = "exited"     -> "terminated"
      [] pc = "terminated" -> "done"

\* Entry of Logger::log from the main program: the level test and the header.
BeginLog(level) ==
    /\ logPart = "none"
    /\ nLog' = nLog + 1
    /\ IF Dropped(level, minLevel_)
       THEN /\ p_pc' = Successor(p_pc, build)
            /\ UNCHANGED <<writes, logPart>>
       ELSE /\ writes' = Append(writes, Line("main", nLog)[1])
            /\ logPart' = "header"
            /\ UNCHANGED p_pc

\* The call of Logger::log the main program is in.
MainCall ==
    LET last == CHOOSE i \in DOMAIN writes :
                   /\ writes[i].who = "main"
                   /\ \A j \in DOMAIN writes : writes[j].who = "main" => j <= i
    IN  writes[last].call

\* Logger::log goes on: the message after the header, the newline after the
\* message, and the return to the caller.
ContinueLog ==
    /\ logPart # "none"
    /\ IF logPart = "header"
       THEN /\ writes' = Append(writes, Line("main", MainCall)[2])
            /\ logPart' = "message"
            /\ UNCHANGED p_pc
       ELSE /\ writes' = Append(writes, Line("main", MainCall)[3])
            /\ logPart' = "none"
            /\ p_pc' = Successor(p_pc, build)
    /\ UNCHANGED <<loggerVars, build, g_running, counter, sleeps, signals, begun,
                   begunAtSignal, reported, events>>
    /\ UNCHANGED <<deployVars, harnessVars, makeVars, history>>

\* LOG_INFO("Starting main loop (Ctrl+C to exit)..."); int counter = 0;
mainLoop ==
    /\ p_pc = "mainLoop"
    /\ BeginLog(LVL_INFO)
    /\ counter' = 0
    /\ UNCHANGED <<minLevel_, threshold, sink, lastCall, site>>
    /\ UNCHANGED <<build, g_running, sleeps, signals, begun, begunAtSignal,
                   reported, events>>
    /\ UNCHANGED <<deployVars, harnessVars, makeVars, history>>

\* Number of iterations of the loop explored.
MaxIterations == 11

\* while (g_running)
Check ==
    /\ p_pc = "check"
    /\ IF g_running
       THEN /\ begun < MaxIterations
            /\ begun' = begun + 1
            /\ p_pc' = Successor(p_pc, build)
       ELSE /\ p_pc' = "exited"
            /\ UNCHANGED begun
    /\ UNCHANGED <<loggerVars, build, g_running, counter, logPart, sleeps,
                   signals, begunAtSignal, reported, events, writes>>
    /\ UNCHANGED <<deployVars, harnessVars, makeVars, history>>

\* The release build logs when counter % 10 == 0, the debug build always.
LogsCounter_always(b, c) == TRUE

LogsCounter(b, c) == b = "debug" \/ c % 10 = 0

\* LOG_DEBUG("Counter: %d", counter) or, in a release build,
\* if (counter % 10 == 0) LOG_INFO("Counter: %d (release mode ...)", counter)
CounterLog ==
    /\ p_pc = "log"
    /\ logPart = "none"
    /\ IF LogsCounter(build, counter)
       THEN /\ BeginLog(BuildLevel(build))
            /\ events' = IF Dropped(BuildLevel(build), minLevel_) THEN events
                         ELSE Append(events, [kind |-> "log", iter |-> begun,
                                              value |-> counter])
       ELSE /\ p_pc' = Successor(p_pc, build)
            /\ UNCHANGED <<nLog, writes, logPart, events>>
    /\ UNCHANGED <<minLevel_, threshold, sink, lastCall, site>>
    /\ UNCHANGED <<build, g_running, counter, sleeps, signals, begun,
                   begunAtSignal, reported>>
    /\ UNCHANGED <<deployVars, harnessVars, makeVars, history>>

\* counter++
Inc ==
    /\ p_pc = "inc"
    /\ counter' = counter + 1
    /\ p_pc' = Successor(p_pc, build)
    /\ UNCHANGED <<loggerVars, build, g_running, logPart, sleeps, signals, begun,
                   begunAtSignal, reported, events, writes>>
    /\ UNCHANGED <<deployVars, harnessVars, makeVars, history>>

\* if (counter % 10 == 0) LOG_TRACE("Periodic trace at counter=%d", counter)
Trace ==
    /\ p_pc = "trace"
    /\ logPart = "none"
    /\ IF counter % 10 = 0
       THEN BeginLog(LVL_TRACE)
       ELSE /\ p_pc' = Successor(p_pc, build)
            /\ UNCHANGED <<nLog, writes, logPart>>
    /\ UNCHANGED <<minLevel_, threshold, sink, lastCall, site>>
    /\ UNCHANGED <<build, g_running, counter, sleeps, signals, begun,
                   begunAtSignal, reported, events>>
    /\ UNCHANGED <<deployVars, harnessVars, makeVars, history>>

\* #define LOOP_DELAY_US (500 * 1000)
LOOP_DELAY_US == 500 * 1000

\* usleep(LOOP_DELAY_US): returns after the interval, or sooner when a signal
\* was handled meanwhile
Sleep ==
    /\ p_pc = "sleep"
    /\ sleeps' = sleeps + 1
    /\ events' = Append(events, [kind |-> "sleep", iter |-> begun,
                                 value |-> LOOP_DELAY_US])
    /\ p_pc' = Successor(p_pc, build)
    /\ UNCHANGED <<loggerVars, build, g_running, counter, logPart, signals, begun,
                   begunAtSignal, reported, writes>>
    /\ UNCHANGED <<deployVars, harnessVars, makeVars, history>>

\* LOG_INFO("Main loop exited after %d iterations", counter)
Exited ==
    /\ p_pc = "exited"
    /\ BeginLog(LVL_INFO)
    /\ reported' = counter
    /\ UNCHANGED <<minLevel_, threshold, sink, lastCall, site>>
    /\ UNCHANGED <<build, g_running, counter, sleeps, signals, begun,
                   begunAtSignal, events>>
    /\ UNCHANGED <<deployVars, harnessVars, makeVars, history>>

\* LOG_INFO("Application terminated gracefully"); return EXIT_SUCCESS;
Terminated ==
    /\ p_pc = "terminated"
    /\ BeginLog(LVL_INFO)
    /\ UNCHANGED <<minLevel_, threshold, sink, lastCall, site>>
    /\ UNCHANGED <<build, g_running, counter, sleeps, signals, begun,
                   begunAtSignal, reported, events>>
    /\ UNCHANGED <<deployVars, harnessVars, makeVars, history>>

\* Number of signals delivered to the process.
MaxSignals == 1

\* A handler that logs its warning and leaves the flag alone.
HandlerFlag_kept(running) == running

\* g_running = false;
HandlerFlag(running) == FALSE

\* signalHandler, run between two steps of the main program, wherever that
\* is once the handler is registered and until the process has exited:
\* LOG_WARN, then the flag.
signalHandler ==
    /\ p_pc \notin {"idle", "main", "done"}
    /\ signals < MaxSignals
    /\ signals' = signals + 1
    /\ writes' = writes \o (IF Dropped(LVL_WARN, minLevel_) THEN <<>>
                            ELSE Line("handler", nLog))
    /\ nLog' = nLog + 1
    /\ g_running' = HandlerFlag(g_running)
    /\ begunAtSignal' = IF signals = 0 THEN begun ELSE begunAtSignal
    /\ UNCHANGED <<minLevel_, threshold, sink, lastCall, site>>
    /\ UNCHANGED <<p_pc, build, counter, logPart, sleeps, begun, reported, events>>
    /\ UNCHANGED <<deployVars, harnessVars, makeVars, history>>

\* The process at the entry of main.
SampleStart ==
    /\ p_pc = "main"
    /\ build \in Builds
    /\ g_running = TRUE
    /\ counter = 0
    /\ logPart = "none"
    /\ sleeps = 0
    /\ signals = 0
    /\ begun = 0
    /\ begunAtSignal = 0
    /\ reported = 0
    /\ events = <<>>
    /\ writes = <<>>

\* The steps of the main program.
MainStep ==
    \/ Register
    \/ Configure
    \/ Starting
    \/ printBuildInfo
    \/ debugAssertDemo
    \/ printSystemInfo
    \/ printUserInfo
    \/ mainLoop
    \/ Check
    \/ CounterLog
    \/ ContinueLog
    \/ Inc
    \/ Trace
    \/ Sleep
    \/ Exited
    \/ Terminated

SampleNext ==
    \/ MainStep
    \/ signalHandler

(***************************************************************************)
(* Makefile: builds that succeed, one after the other, in one directory    *)
(***************************************************************************)

\* Number of builds run one after the other.
MaxRebuilds == 2

\* The architectures of the cross builds run one after the other, each with
\* its documented compiler.
RebuildArchs == {"arm64", "riscv64"}

\* A build goal is made, BUILD_MODE left to the Makefile; the compiler is
\* installed and the sources compile.
Rebuild ==
    /\ Len(history) < MaxRebuilds
    /\ \E goal \in TargetGoals \cup HostGoals \cup CrossGoals,
          arch \in RebuildArchs :
         /\ IF goal \in CrossGoals
            THEN Invoke(goal, "", arch, DocumentedCompiler(arch), TRUE)
            ELSE Invoke(goal, "", "", "", TRUE)
         /\ history' = Append(history, lastReq')
    /\ UNCHANGED <<deployVars, harnessVars, loggerVars, sampleVars>>

RebuildNext == Rebuild

(***************************************************************************)
(* Specifications                                                          *)
(***************************************************************************)

\* A run of deploy.sh.
DeployInit  == DeployStart /\ HarnessIdle /\ MakeIdle
                   /\ LoggerIdle /\ SampleIdle /\ RebuildIdle
DeploySpec  == DeployInit /\ [][DeployNext]_vars

\* A run of scripts/test_build.sh.
HarnessInit == DeployIdle /\ HarnessStart /\ MakeStart
                   /\ LoggerIdle /\ SampleIdle /\ RebuildIdle
HarnessSpec == HarnessInit /\ [][HarnessNext]_vars

\* make invocations in a working directory.
MakeInit    == DeployIdle /\ HarnessIdle /\ MakeStart
                   /\ LoggerIdle /\ SampleIdle /\ RebuildIdle
MakeSpec    == MakeInit /\ [][MakeNext]_vars

\* Successful builds in a directory that starts without artifacts.
RebuildInit == DeployIdle /\ HarnessIdle /\ MakeIdle
                   /\ LoggerIdle /\ SampleIdle /\ RebuildIdle
RebuildSpec == RebuildInit /\ [][RebuildNext]_vars

\* The sample program, from the entry of main to its return; the process is
\* scheduled again and again until it has exited.
SampleInit  == DeployIdle /\ HarnessIdle /\ MakeIdle
                   /\ LoggerIdle /\ SampleStart /\ RebuildIdle
SampleSpec  == SampleInit /\ [][SampleNext]_vars /\ WF_vars(MainStep)

\* Calls of the logger from one call site.
LoggerInit  == DeployIdle /\ HarnessIdle /\ MakeIdle
                   /\ LoggerStart /\ SampleIdle /\ RebuildIdle
LoggerSpec  == LoggerInit /\ [][LoggerNext]_vars

(***************************************************************************)
(* Properties                                                              *)
(***************************************************************************)

Range(seq) == {seq[i] : i \in DOMAIN seq}

Ran(step)    == step \in DOMAIN stepRc
Failed(step) == Ran(step) /\ stepRc[step] # 0
LastAttempted == attempted[Len(attempted)]

\* C1: the remote steps are attempted strictly in the order cleanup, upload,
\* chmod, launch: what has been attempted is always a prefix of that list,
\* so no step runs before its predecessors and none runs twice.
C1_StepsInOrder ==
    /\ Len(attempted) <= Len(Steps)
    /\ \A i \in DOMAIN attempted : attempted[i] = Steps[i]
    /\ DOMAIN stepRc = Range(attempted)

\* C1 witness: a run in which all four steps were attempted.
C1_AllStepsRun == d_pc = "done" /\ Len(attempted) = 4 /\ exitStatus = 0

\* C2: once the upload, the chmod or the launch has failed, the script has
\* ended with a nonzero status, the failed step is the last one attempted,
\* and what the earlier steps did on the remote host is still in place.
C2_FatalFailureAborts ==
    \A s \in FatalSteps :
        Failed(s) =>
            /\ d_pc = "done"
            /\ exitStatus # 0
            /\ exitStatus = stepRc[s]
            /\ LastAttempted = s
            /\ (Ran("upload") /\ stepRc["upload"] = 0) => remote.artifact = "new"
            /\ (Ran("chmod") /\ stepRc["chmod"] = 0) => remote.chmodDone
            /\ remote.gdbserver => remoteInit.gdbserver

\* C2 witness: the chmod failed after a successful upload; the new artifact
\* stays on the remote host and the debug server was not launched.
C2_ChmodFailedAfterUpload ==
    /\ d_pc = "done"
    /\ Failed("chmod")
    /\ remote.artifact = "new"
    /\ ~Ran("launch")
    /\ ~remote.launched

\* C3: whatever the cleanup step returned, the upload is attempted next, and
\* the exit status is that of the last fatal step attempted, not of the cleanup.
C3_CleanupTolerated ==
    /\ Ran("cleanup") => (d_pc = "upload" \/ Ran("upload"))
    /\ (nargs = RequiredArgs /\ binaryExists /\ sshpassInstalled /\ d_pc = "done")
          => (Ran("cleanup") /\ Ran("upload"))
    /\ (d_pc = "done" /\ Ran("cleanup"))
          => (LastAttempted \in FatalSteps /\ exitStatus = stepRc[LastAttempted])

\* C3 witness: the cleanup failed for want of a connection and changed
\* nothing, and the run still ended with status 0.
C3_CleanupFailedRunSucceeded ==
    /\ d_pc = "done"
    /\ Ran("cleanup")
    /\ stepRc["cleanup"] = 255
    /\ remoteInit.gdbserver /\ remote.gdbserver
    /\ exitStatus = 0

\* C4: when the local artifact does not exist or sshpass is not installed no
\* remote step is ever attempted, the remote host is left as it was, and the
\* script ends with a nonzero status.
C4_MissingPrerequisiteAborts ==
    (~binaryExists \/ ~sshpassInstalled) =>
        /\ attempted = <<>>
        /\ DOMAIN stepRc = {}
        /\ remote = remoteInit
        /\ d_pc \in {"args", "check_binary", "check_sshpass", "done"}
        /\ d_pc = "done" => exitStatus # 0

\* C4 witness: all arguments given, the artifact exists, sshpass is absent:
\* the run ended with status 1 after the error line.
C4_SshpassMissing ==
    /\ d_pc = "done"
    /\ nargs = RequiredArgs
    /\ binaryExists
    /\ ~sshpassInstalled
    /\ exitStatus = 1
    /\ output = <<<<"ERROR", "sshpass is not installed.">>>>

\* The step a line of the script's output names.
StepNamed(line) ==
    CASE line[2] = "Cleaning up previous deployment..." -> "cleanup"
      [] line[2] = "Uploading binary..."                -> "upload"
      [] line[2] = "Starting gdbserver..."              -> "launch"
      [] OTHER                                          -> "none"

\* The step the output identifies as failed: the one named by an error line
\* if there is one, else the one announced by the last line written.
IdentifiedStep(out) ==
    LET errs == {i \in DOMAIN out : out[i][1] = "ERROR" /\ StepNamed(out[i]) # "none"} IN
    IF errs # {} THEN StepNamed(out[CHOOSE i \in errs : \A j \in errs : j <= i])
    ELSE IF out = <<>> THEN "none"
    ELSE StepNamed(out[Len(out)])

\* C5: when a fatal remote step has failed, the output of the script
\* identifies that step.
C5_OutputIdentifiesFailedStep ==
    \A s \in FatalSteps : (d_pc = "done" /\ Failed(s)) => IdentifiedStep(output) = s

\* The builds of the harness that failed, passed, by the status make returned.
FailedBuilds == {n \in DOMAIN built : built[n] # 0}
PassedBuilds == {n \in DOMAIN built : built[n] = 0}

\* C6: an architecture whose toolchain is absent is skipped: it is not among
\* the failed architectures, no build of it is counted, and once the loop is
\* over it is among the skipped ones.
C6_AbsentToolchainSkipped ==
    \A a \in Archs :
        ~CommandV(DocumentedCompiler(a)) =>
            /\ a \notin Range(FAILED_ARCHS)
            /\ a \notin DOMAIN built
            /\ h_pc = "done" => a \in skipped

\* C7: the harness exits 0 exactly when no attempted build failed; the
\* attempted builds are host, armhf and the cross architectures whose
\* compiler is present; when a build failed the summary lists exactly the
\* failed builds.
C7_ExitStatusAndSummary ==
    h_pc = "done" =>
        /\ DOMAIN built = {"host", "armhf"} \cup
               {a \in DOMAIN ARCH_COMPILERS : CommandV(ARCH_COMPILERS[a])}
        /\ (h_exit = 0) <=> (FailedBuilds = {})
        /\ FailedBuilds # {} =>
              /\ Range(summary) = FailedBuilds
              /\ Len(summary) = Cardinality(FailedBuilds)
              /\ Range(summary) \cap (PassedBuilds \cup skipped) = {}

\* C7 witness: a run with failed, passed and skipped builds.
C7_MixedRun ==
    /\ h_pc = "done"
    /\ h_exit = 1
    /\ Cardinality(FailedBuilds) >= 2
    /\ Cardinality(PassedBuilds) >= 2
    /\ skipped # {}

\* The profile a make invocation asks for: the one its goal names, else the
\* value of BUILD_MODE.
Profile(req) ==
    IF req.goal \in {"release", "host-release", "cross-release"} THEN "release"
    ELSE IF req.goal \in {"debug", "host", "host-debug", "cross-debug"} THEN "debug"
    ELSE req.BUILD_MODE

BundleFlags == {"-O2", "-DNDEBUG", "-s", "-g3", "-O0", "-DDEBUG"}

\* C8: every compiler command carries the common flags and then exactly one
\* bundle: -O2 -DNDEBUG -s when the profile is release, -g3 -O0 -DDEBUG
\* otherwise; never both markers, never none, whatever the architecture.
C8_OneFlagBundle ==
    \A i \in DOMAIN lastCmds :
        LET argv   == lastCmds[i]
            bundle == IF Profile(lastReq) = "release"
                      THEN <<"-O2", "-DNDEBUG", "-s">>
                      ELSE <<"-g3", "-O0", "-DDEBUG">>
        IN /\ SubSeq(argv, 2, 5) = <<"-Wall", "-Wextra", "-Wpedantic", "-std=c++17">>
           /\ SubSeq(argv, 6, 8) = bundle
           /\ Range(argv) \cap BundleFlags = Range(bundle)
           /\ ("-DDEBUG" \in Range(argv)) # ("-DNDEBUG" \in Range(argv))

\* C8 witness: a release build for arm64 asked for with BUILD_MODE=debug in
\* the environment and the goal cross-release.
C8_ReleaseCrossBuild ==
    /\ lastReq.goal = "cross-release"
    /\ lastReq.BUILD_MODE = "debug"
    /\ lastReq.CROSS_ARCH = "arm64"
    /\ Len(lastCmds) = 1
    /\ "-DNDEBUG" \in Range(lastCmds[1])

\* The architecture a make invocation builds for.
ArchOf(req) ==
    IF req.goal \in TargetGoals THEN "armhf"
    ELSE IF req.goal \in HostGoals THEN "host"
    ELSE req.CROSS_ARCH

\* C9 as stated: for each of the six architectures the compiler command
\* uses the toolchain documented for it.
C9_DocumentedToolchain ==
    \A i \in DOMAIN lastCmds :
        ArchOf(lastReq) \in Archs =>
            lastCmds[i][1] = DocumentedCompiler(ArchOf(lastReq))

\* C9 amended: a cross build runs the compiler the caller passes in CPP (cc -E,
\* the built-in value of make, when none is passed) whatever the architecture
\* token, hence the documented toolchain when the caller passes it;
\* the ARM HF targets run arm-linux-gnueabihf-g++ and the host targets g++.
C9_CompilerAsSupplied ==
    \A i \in DOMAIN lastCmds :
        LET compiler == lastCmds[i][1] IN
        /\ lastReq.goal \in CrossGoals =>
              /\ lastReq.CPP # "" => compiler = lastReq.CPP
              /\ lastReq.CPP = "" => compiler = "cc -E"
              /\ (lastReq.CROSS_ARCH \in Archs
                    /\ lastReq.CPP = DocumentedCompiler(lastReq.CROSS_ARCH))
                  => compiler = DocumentedCompiler(lastReq.CROSS_ARCH)
        /\ lastReq.goal \in TargetGoals => compiler = "arm-linux-gnueabihf-g++"
        /\ lastReq.goal \in HostGoals => compiler = "g++"

\* C9 witness: a cross build for riscv64 run with the compiler of another
\* architecture, as the caller asked.
C9_MismatchedCompiler ==
    /\ lastReq.goal \in CrossGoals
    /\ lastReq.CROSS_ARCH = "riscv64"
    /\ Len(lastCmds) = 1
    /\ lastCmds[1][1] = "arm-linux-gnueabi-g++"
    /\ lastRc = 0

\* C10 as stated: the artifact of a build for an architecture is named
\* firmware_<architecture>.bin, that of a host build program.bin.
C10_ArtifactNamedByArchitecture ==
    \A i \in DOMAIN lastCmds :
        OutputOf(lastCmds[i]) =
            IF ArchOf(lastReq) = "host" THEN "program.bin"
            ELSE "firmware_" \o ArchOf(lastReq) \o ".bin"

\* C10 amended: a cross build with architecture token T writes firmware_T.bin,
\* a host build program.bin and the ARM HF targets firmware.bin; the name
\* written tells the token, so distinct architectures never write the same
\* name, and every artifact present was written under its own name.
C10_ArtifactNames ==
    /\ \A i \in DOMAIN lastCmds :
         LET out == OutputOf(lastCmds[i]) IN
         /\ lastReq.goal \in CrossGoals =>
               out = "firmware_" \o lastReq.CROSS_ARCH \o ".bin"
         /\ lastReq.goal \in HostGoals => out = "program.bin"
         /\ lastReq.goal \in TargetGoals => out = "firmware.bin"
         /\ \A a \in ArchTokens :
               out = "firmware_" \o a \o ".bin" =>
                   (lastReq.goal \in CrossGoals /\ lastReq.CROSS_ARCH = a)
         /\ lastRc = 0 => (out \in DOMAIN files /\ files[out] = lastCmds[i])
    /\ \A f \in DOMAIN files : OutputOf(files[f]) = f

\* C10 witness: a cross build for i386 wrote firmware_i386.bin next to the
\* firmware.bin of an earlier ARM HF build.
C10_CrossArtifactWritten ==
    /\ lastReq.goal = "cross_compile"
    /\ lastReq.CROSS_ARCH = "i386"
    /\ lastRc = 0
    /\ DOMAIN files = {"firmware.bin", "firmware_i386.bin"}

\* What the last call of the logger added to the sink.
Added == SubSeq(sink, lastCall.before + 1, Len(sink))

\* Number of newline characters in a text.
Newlines(text) == Cardinality({i \in DOMAIN text : text[i] = "\n"})

\* C11: a log call with a severity below the minimum severity set by the
\* last setLevel (DEBUG when there was none) adds nothing to the sink, and a
\* call at or above it adds exactly one line, non-empty and ended by its only
\* newline; the severities are ordered TRACE < DEBUG < INFO < WARN < ERROR <
\* FATAL.
C11_ThresholdFilter ==
    /\ LVL_TRACE < LVL_DEBUG /\ LVL_DEBUG < LVL_INFO /\ LVL_INFO < LVL_WARN
    /\ LVL_WARN < LVL_ERROR /\ LVL_ERROR < LVL_FATAL
    /\ nLog = 0 => sink = <<>>
    /\ nLog > 0 =>
         IF lastCall.level < lastCall.min
         THEN Len(sink) = lastCall.before
         ELSE /\ Len(Added) > 1
              /\ Newlines(Added) = 1
              /\ Added[Len(Added)] = "\n"

\* C11 witness: after setLevel(ERROR) a first call was dropped and a second
\* call, made with ERROR, wrote the only line of the sink.
C11_DroppedThenWritten ==
    /\ nLog = 2
    /\ lastCall.min = LVL_ERROR
    /\ lastCall.level = LVL_ERROR
    /\ lastCall.before = 0
    /\ Newlines(sink) = 1

\* Where the file field of a line starts: after the timestamp, the label,
\* the function in brackets and the opening bracket of the origin.
FileFieldStart == 19 + 1 + 5 + 2 + Len(site.func) + 3 + 1

\* The file field of a line: from FileFieldStart to the colon before the line
\* number.
FileField(text) ==
    LET colon == CHOOSE i \in FileFieldStart..Len(text) :
                    /\ text[i] = ":"
                    /\ \A j \in FileFieldStart..(i - 1) : text[j] # ":"
    IN  SubSeq(text, FileFieldStart, colon - 1)

IsSuffix(t, text) ==
    /\ Len(t) <= Len(text)
    /\ t = SubSeq(text, Len(text) - Len(t) + 1, Len(text))

Has(text, c) == \E i \in DOMAIN text : text[i] = c

\* C12: the file field of an emitted line has no '/' in it and is a suffix of
\* the origin path; when the path has a '/', the field is what follows the
\* last one; a path with neither '/' nor '\' is written unchanged.
C12_FileFieldIsBasename ==
    (nLog > 0 /\ Len(sink) > lastCall.before) =>
        LET field == FileField(Added)
            path  == site.file
        IN  /\ ~Has(field, "/")
            /\ IsSuffix(field, path)
            /\ Has(path, "/") =>
                  /\ Len(field) < Len(path)
                  /\ path[Len(path) - Len(field)] = "/"
            /\ (~Has(path, "/") /\ ~Has(path, "\\")) => field = path

\* C12 witness: a line logged from /a/a carries the file field a.
C12_NestedPathLogged ==
    /\ nLog > 0
    /\ Len(sink) > lastCall.before
    /\ site.file = <<"/", "a", "/", "a">>
    /\ FileField(Added) = <<"a">>

\* The names of the severities.
SeverityName(level) ==
    CASE level = LVL_TRACE -> <<"T", "R", "A", "C", "E">>
      [] level = LVL_DEBUG -> <<"D", "E", "B", "U", "G">>
      [] level = LVL_INFO  -> <<"I", "N", "F", "O">>
      [] level = LVL_WARN  -> <<"W", "A", "R", "N">>
      [] level = LVL_ERROR -> <<"E", "R", "R", "O", "R">>
      [] level = LVL_FATAL -> <<"F", "A", "T", "A", "L">>

Spaces(n) == [i \in 1..n |-> " "]

\* A name padded to five characters on its left, and on its right.
PadLeft(name)  == Spaces(5 - Len(name)) \o name
PadRight(name) == name \o Spaces(5 - Len(name))

\* The label of a line: the five characters after the timestamp and a space.
Label(text) == SubSeq(text, 21, 25)

IsDigit(c) == c \in {"0", "1", "2", "3", "4", "5", "6", "7", "8", "9"}

\* YYYY-MM-DD HH:MM:SS
IsTimestamp(t) ==
    /\ Len(t) = 19
    /\ \A i \in 1..19 :
         CASE i \in {5, 8}   -> t[i] = "-"
           [] i = 11         -> t[i] = " "
           [] i \in {14, 17} -> t[i] = ":"
           [] OTHER          -> IsDigit(t[i])

\* The fields of a line in the fixed order, around a given label.
Layout(text, label) ==
    /\ Len(text) >= 25
    /\ IsTimestamp(SubSeq(text, 1, 19))
    /\ text = SubSeq(text, 1, 19) \o <<" ">> \o label \o <<" ", "[">>
                \o site.func \o <<"]", " ", "[">> \o FileField(text)
                \o <<":">> \o Decimal(site.line) \o <<"]", " ", ":", " ">>
                \o lastCall.msg \o <<"\n">>

\* C13 as stated: the label of every emitted line is five characters wide
\* with the name of the severity padded on its left, and the fields come in
\* the fixed order.
C13_LabelPaddedOnTheLeft ==
    (nLog > 0 /\ Len(sink) > lastCall.before) =>
        /\ Len(Label(Added)) = 5
        /\ Label(Added) = PadLeft(SeverityName(lastCall.level))
        /\ Layout(Added, PadLeft(SeverityName(lastCall.level)))

\* C13 amended: the label of every emitted line is five characters wide, for
\* each of the six severities: the name of the severity first, then, for INFO
\* and WARN, one space of padding on the right; the fields come in the order
\* timestamp, label, [function], [file:line], ' : ', message.
C13_LabelPaddedOnTheRight ==
    (nLog > 0 /\ Len(sink) > lastCall.before) =>
        /\ Len(Label(Added)) = 5
        /\ Label(Added) = PadRight(SeverityName(lastCall.level))
        /\ Layout(Added, PadRight(SeverityName(lastCall.level)))

\* C13 witness: a line written with WARN carries the label 'WARN '.
C13_WarnLineWritten ==
    /\ nLog > 0
    /\ Len(sink) > lastCall.before
    /\ lastCall.level = LVL_WARN
    /\ Label(Added) = <<"W", "A", "R", "N", " ">>

\* C14: the running flag is true until a signal is handled and false ever
\* after, and only the handler changes it; no iteration begins after the
\* signal, so the loop ends after at most the iteration in progress; the count
\* reported is the number of iterations begun (0 when the signal came before
\* the first test); the loop is never left without a signal; and once a
\* signal has been handled the program runs to its end.
C14_Flag ==
    /\ signals = 0 => g_running = TRUE
    /\ signals > 0 => g_running = FALSE
    /\ signals > 0 => begun = begunAtSignal
    /\ p_pc \in {"exited", "terminated", "done"} => signals > 0
    /\ p_pc \in {"terminated", "done"} =>
         /\ reported = begun
         /\ begunAtSignal = 0 => reported = 0

C14_OnlyHandlerClearsFlag ==
    g_running' # g_running =>
        (g_running /\ ~g_running' /\ signals' = signals + 1)

C14_GracefulShutdown ==
    /\ []C14_Flag
    /\ [][C14_OnlyHandlerClearsFlag]_vars
    /\ (signals > 0) ~> (p_pc = "done")

\* C14 witness: a signal handled during the third iteration; the program
\* ended and reported 3 iterations.
C14_StoppedInThirdIteration ==
    /\ p_pc = "done"
    /\ signals = 1
    /\ begunAtSignal = 3
    /\ sleeps = 3
    /\ reported = 3

LogEvents   == {i \in DOMAIN events : events[i].kind = "log"}
SleepEvents == {i \in DOMAIN events : events[i].kind = "sleep"}

\* C15 as stated: every counter line of an iteration comes after the sleep of
\* that iteration.
C15_SleepBeforeLog ==
    \A i \in LogEvents :
        \E j \in SleepEvents : j < i /\ events[j].iter = events[i].iter

\* C15 amended: in each iteration the counter is logged first and the sleep
\* comes last: the counter line of iteration k has before it the sleeps of
\* the k - 1 earlier iterations and no other, so the first counter line is
\* written before any sleep; the sleep of an iteration follows its counter
\* line.
C15_LogBeforeSleep ==
    /\ \A i \in LogEvents :
         {events[j].iter : j \in {n \in SleepEvents : n < i}}
             = 1..(events[i].iter - 1)
    /\ \A j \in SleepEvents :
         LogsCounter(build, events[j].iter - 1) =>
             \E i \in LogEvents : i < j /\ events[i].iter = events[j].iter

\* C15 witness: the first thing the loop did was to log the counter; the
\* first sleep came after it, and a second line after that.
C15_FirstLineBeforeFirstSleep ==
    /\ build = "debug"
    /\ Len(events) >= 3
    /\ events[1] = [kind |-> "log", iter |-> 1, value |-> 0]
    /\ events[2].kind = "sleep"
    /\ events[3].kind = "log"

\* The iterations for which the statement that logs the counter is over.
Decided ==
    {k \in 1..begun : k < begun \/ ~(p_pc = "log" /\ logPart = "none")}

\* C16: an iteration of a debug build logs the counter, an iteration of a
\* release build logs it exactly when the counter is a multiple of 10 before
\* the increment; the line carries that value, and an iteration adds exactly 1
\* to the counter, so iteration k works on the value k - 1.
C16_CounterLogging ==
    /\ \A k \in Decided :
         /\ (\E i \in LogEvents : events[i].iter = k)
                <=> (build = "debug" \/ (k - 1) % 10 = 0)
         /\ Cardinality({i \in LogEvents : events[i].iter = k}) <= 1
    /\ \A i \in LogEvents : events[i].value = events[i].iter - 1
    /\ counter = IF p_pc \in {"log", "inc"} THEN begun - 1 ELSE begun

\* C16 witness: a release build in its eleventh iteration has logged the
\* counter twice, with 0 and with 10.
C16_ReleaseLoggedTwice ==
    /\ build = "release"
    /\ begun = 11
    /\ counter = 11
    /\ {events[i].value : i \in LogEvents} = {0, 10}

\* C17: every line of the sink is the record of one log call: a header is
\* followed by the message of the same call and the message by its newline.
C17_LinesAreWhole ==
    \A i \in DOMAIN writes :
        (i < Len(writes) /\ writes[i].part # "newline") =>
            /\ writes[i + 1].who = writes[i].who
            /\ writes[i + 1].call = writes[i].call
            /\ writes[i + 1].part =
                  (IF writes[i].part = "header" THEN "message" ELSE "newline")

\* The artifact a build request is for.
ArtifactOf(req) ==
    IF req.goal \in TargetGoals THEN "firmware.bin"
    ELSE IF req.goal \in HostGoals THEN "program.bin"
    ELSE "firmware_" \o req.CROSS_ARCH \o ".bin"

\* The last request of the history made for an artifact.
LastRequestFor(f) ==
    LET last == CHOOSE i \in DOMAIN history :
                   /\ ArtifactOf(history[i]) = f
                   /\ \A j \in DOMAIN history :
                         ArtifactOf(history[j]) = f => j <= i
    IN  history[last]

\* C18: after builds that all succeeded, every artifact present was compiled
\* with the flag bundle of the most recent invocation made for it: the release
\* bundle when that invocation asked for release, the debug bundle otherwise.
C18_ArtifactOfLastInvocation ==
    \A f \in DOMAIN files :
        ("-O2" \in Range(files[f])) <=> (Profile(LastRequestFor(f)) = "release")

\* C19: at every point of a harness run PASSED + FAILED is the number of
\* builds attempted so far and FAILED the length of the failed list; an
\* attempted build is counted once, as passed or, with its name in the list,
\* as failed; the final counts, the failed names and the exit status are
\* determined by the outcome of each build, whatever the order of the cross
\* architectures; every step brings the run nearer to the summary and the run
\* is never stopped before it.
C19_Counts ==
    /\ PASSED + FAILED = Cardinality(DOMAIN built)
    /\ FAILED = Len(FAILED_ARCHS)
    /\ PASSED = Cardinality(PassedBuilds)
    /\ Range(FAILED_ARCHS) = FailedBuilds
    /\ Cardinality(Range(FAILED_ARCHS)) = Len(FAILED_ARCHS)
    /\ h_pc = "done" =>
         /\ h_exit = (IF FailedBuilds = {} THEN 0 ELSE 1)
         /\ Range(summary) = FailedBuilds
    /\ h_pc \notin {"idle", "done"} => ENABLED HarnessNext

\* The steps left before the end of the run.
StepsLeft ==
    Cardinality(todo) +
        (CASE h_pc = "clean" -> 4
           [] h_pc = "host"  -> 3
           [] h_pc = "armhf" -> 2
           [] h_pc = "loop"  -> 1
           [] OTHER          -> 0)

C19_NearerToSummary == StepsLeft' < StepsLeft

C19_Accounting ==
    /\ []C19_Counts
    /\ [][C19_NearerToSummary]_vars

\* C19 witness: a finished run in which all seven builds were attempted, four
\* passed and the host build and two cross builds failed.
C19_SevenAttempted ==
    /\ h_pc = "done"
    /\ skipped = {}
    /\ PASSED = 4
    /\ FAILED = 3
    /\ Range(FAILED_ARCHS) = {"host", "arm64", "i386"}
    /\ h_exit = 1

====
